---- MODULE Spec2Model ----
(***************************************************************************)
(* Model of the GTK4 ADB transfer tool (src/app.py).                       *)
(*                                                                         *)
(* Text is modelled as a sequence of one-character strings, so that        *)
(* str.strip, float() and "\n".join are computed and not assumed.          *)
(* Real numbers are modelled in thousandths (1.0 is 1000): percentages,    *)
(* fractions and seconds alike.  Seconds are therefore milliseconds.       *)
(***************************************************************************)
EXTENDS Integers, Sequences, FiniteSets, TLC

\* ------------------------------------------------------------------ bounds
\* Accepted start requests in one behaviour.
MaxStarts == 2
\* Lines the pipelines of one behaviour write to their diagnostic streams.
MaxLines == 2

\* ------------------------------------------------------- program constants
\* time_delta > 0.5 (seconds), in milliseconds.
SamplingInterval == 500
\* error_msg[:40] in on_transfer_finished.
ToastLimit == 40
\* 1024 in format_speed.
Kilo == 1024

DEVICE_DIR == <<"/","s","d","c","a","r","d","/","T","r","a","n","s","f","e","r">>
REMOTE_BASE_DIR == <<"/","s","d","c","a","r","d">>
REMOTE_TARGET_DIR_NAME == <<"T","r","a","n","s","f","e","r">>

DeviceErrorMsg == <<"A","D","B"," ","D","e","v","i","c","e"," ","n","o","t"," ","c","o","n","n","e","c","t","e","d"," ","o","r"," ","u","n","a","u","t","h","o","r","i","z","e","d">>
LocalPathMsg == <<"L","o","c","a","l"," ","p","a","t","h"," ","d","o","e","s"," ","n","o","t"," ","e","x","i","s","t">>
CheckTerminalMsg == <<"C","h","e","c","k"," ","t","e","r","m","i","n","a","l"," ","f","o","r"," ","d","e","t","a","i","l","s",".">>
Ellipsis == <<".",".",".">>

\* ------------------------------------------------------------- environment
\* Texts the user may have typed into the path entry.
PathTexts == { <<>>, <<" ">>, <<"/","o">>, <<" ","/","o"," ">> }

\* Lines the pipeline may write to its diagnostic stream (pv -n percentages,
\* tar/adb messages, blank lines).
StderrLines ==
  { <<"1","2",".","5","\n">>,
    <<"1","5","0","\n">>,
    <<"a","b","o","r","t","\n">>,
    <<"d","e","n","i","e","d","\n">>,
    <<" ","\n">> }

\* Byte counts the size queries may return.
SizeValues == { 0, 1048576 }

\* Exit statuses of one pipeline stage.
StageStatuses == { 0, 1 }

\* Advances of the wall clock between two readings of time.time(), in ms: less
\* than the sampling interval and more than it (two short advances make the
\* interval exactly).
TimeSteps == { 250, 750 }

\* ----------------------------------------------------------------- strings
Whitespace == { " ", "\n", "\t", "\r" }
Digits == { "0", "1", "2", "3", "4", "5", "6", "7", "8", "9" }

RECURSIVE LStrip(_)
LStrip(s) == IF s # <<>> /\ Head(s) \in Whitespace THEN LStrip(Tail(s)) ELSE s

RECURSIVE RStrip(_)
RStrip(s) ==
  IF s # <<>> /\ s[Len(s)] \in Whitespace THEN RStrip(SubSeq(s, 1, Len(s) - 1)) ELSE s

\* str.strip()
Strip(s) == RStrip(LStrip(s))

DigitValue(c) ==
  CASE c = "0" -> 0 [] c = "1" -> 1 [] c = "2" -> 2 [] c = "3" -> 3 [] c = "4" -> 4
    [] c = "5" -> 5 [] c = "6" -> 6 [] c = "7" -> 7 [] c = "8" -> 8 [] c = "9" -> 9

AllDigits(s) == \A i \in 1..Len(s) : s[i] \in Digits

RECURSIVE NatValue(_)
NatValue(s) == IF s = <<>> THEN 0 ELSE 10 * NatValue(SubSeq(s, 1, Len(s) - 1)) + DigitValue(s[Len(s)])

\* The thousandths spelled by the digits after the decimal point (three kept).
FracMilli(s) ==
  LET d(i) == IF i <= Len(s) THEN DigitValue(s[i]) ELSE 0
  IN  100 * d(1) + 10 * d(2) + d(3)

DotIndex(s) ==
  IF \E i \in 1..Len(s) : s[i] = "."
    THEN CHOOSE i \in 1..Len(s) : s[i] = "." /\ \A j \in 1..(i - 1) : s[j] # "."
    ELSE 0

\* An unsigned decimal literal: digits, digits., .digits or digits.digits
IsUnsignedDecimal(s) ==
  LET k == DotIndex(s)
      ip == IF k = 0 THEN s ELSE SubSeq(s, 1, k - 1)
      fp == IF k = 0 THEN <<>> ELSE SubSeq(s, k + 1, Len(s))
  IN  /\ AllDigits(ip) /\ AllDigits(fp)
      /\ Len(ip) + Len(fp) > 0

UnsignedMilli(s) ==
  LET k == DotIndex(s)
      ip == IF k = 0 THEN s ELSE SubSeq(s, 1, k - 1)
      fp == IF k = 0 THEN <<>> ELSE SubSeq(s, k + 1, Len(s))
  IN  1000 * NatValue(ip) + FracMilli(fp)

HasSign(s) == s # <<>> /\ Head(s) \in { "-", "+" }

\* float(s) of a trimmed line: [ok |-> FALSE] stands for ValueError, otherwise
\* the value in thousandths.  Exponents, underscores and the inf/nan words
\* cannot be spelled with the characters of StderrLines.
ParseFloat(s) ==
  LET body == IF HasSign(s) THEN Tail(s) ELSE s
  IN  IF IsUnsignedDecimal(body)
        THEN [ok |-> TRUE,
              milli |-> IF HasSign(s) /\ Head(s) = "-" THEN 0 - UnsignedMilli(body)
                                                       ELSE UnsignedMilli(body)]
        ELSE [ok |-> FALSE, milli |-> 0]

\* "\n".join(xs)
RECURSIVE Join(_)
Join(xs) ==
  IF xs = <<>> THEN <<>>
  ELSE IF Len(xs) = 1 THEN xs[1]
  ELSE xs[1] \o <<"\n">> \o Join(Tail(xs))

\* Division truncating toward zero, as int() of a float quotient does.
TruncDiv(a, b) == IF a >= 0 THEN a \div b ELSE 0 - ((0 - a) \div b)

\* Rounding a non-negative quotient to the nearest integer (":.0f", ":.1f").
RoundDiv(a, b) == (2 * a + b) \div (2 * b)

\* format_speed: the number shown (in tenths for KB/s and MB/s) and the unit.
format_speed(bytes_per_sec) ==
  IF bytes_per_sec < Kilo
    THEN [num |-> bytes_per_sec, unit |-> "B/s"]
  ELSE IF bytes_per_sec < Kilo * Kilo
    THEN [num |-> RoundDiv(10 * bytes_per_sec, Kilo), unit |-> "KB/s"]
  ELSE [num |-> RoundDiv(10 * bytes_per_sec, Kilo * Kilo), unit |-> "MB/s"]

\* ------------------------------------------------------------------- state
Attempts == 1..MaxStarts

VARIABLES
  \* ADBTransferApp fields and widgets
  total_bytes, last_fraction, last_time,
  start_btn_sensitive, status_label, progress_bar, speed_label, toast,
  \* the GLib main context: callbacks queued by GLib.idle_add, oldest first
  idle_queue,
  \* time.time(), in ms
  now,
  \* number of start requests accepted so far; attempt k is the k-th of them
  starts,
  \* per attempt: the _prepare_and_run thread, the shell pipeline, the
  \* read_stderr thread
  worker, proc, reader,
  \* number of lines the pipelines have written, and read_stderr has read, so far
  written,
  \* per attempt, for the properties only: what was called and delivered
  trace,
  \* per attempt: the lines written to the stderr pipe and not read yet
  pipe,
  \* py_version/gui.py: the entry's text, the selected mode, and what the last
  \* call of run() did
  path_var, mode_var, last_run

app_vars == <<total_bytes, last_fraction, last_time, start_btn_sensitive,
              status_label, progress_bar, speed_label, toast>>
vars == <<total_bytes, last_fraction, last_time, start_btn_sensitive,
          status_label, progress_bar, speed_label, toast,
          idle_queue, now, starts, worker, proc, reader, written, trace, pipe,
          path_var, mode_var, last_run>>
tk_vars == <<path_var, mode_var, last_run>>

\* run() has not been called.
NoRun == [path |-> <<>>, mode |-> "", device |-> "unasked", local |-> "unasked",
          calls |-> <<>>, shown |-> <<>>, raised |-> FALSE]

NoWorker == [pc |-> "none", is_pull |-> FALSE, local_path |-> <<>>, size_bytes |-> 0]
NoProc == [state |-> "none", status |-> <<0, 0, 0>>,
           cmd |-> [stage1 |-> [run |-> "", dir |-> <<>>, name |-> <<>>],
                    stage2 |-> [run |-> "", size |-> 0],
                    stage3 |-> [run |-> "", dir |-> <<>>]]]
NoReader == [pc |-> "none", line |-> <<>>, captured_errors |-> <<>>]
NoTrace == [calls |-> <<>>, lines_read |-> <<>>, progress_enq |-> <<>>,
            progress_run |-> <<>>, finished_enq |-> <<>>, finished_run |-> <<>>,
            status |-> <<>>]

\* No toast on the overlay.
NoToast == [text |-> "", detail |-> <<>>]

\* A label text that is not a formatted speed.
PlainText(str) == [num |-> 0, unit |-> str]

\* ADBTransferApp.__init__ and on_activate
Init ==
  /\ total_bytes = 0
  /\ last_fraction = 0
  /\ last_time = 0
  /\ start_btn_sensitive = TRUE
  /\ status_label = "Ready"
  /\ progress_bar = [fraction |-> 0, text |-> 0, opacity |-> 0]
  /\ speed_label = [text |-> PlainText(""), opacity |-> 0]
  /\ toast = NoToast
  /\ idle_queue = <<>>
  /\ now = 1000000
  /\ starts = 0
  /\ worker = [a \in Attempts |-> NoWorker]
  /\ proc = [a \in Attempts |-> NoProc]
  /\ reader = [a \in Attempts |-> NoReader]
  /\ written = 0
  /\ trace = [a \in Attempts |-> NoTrace]
  /\ pipe = [a \in Attempts |-> <<>>]
  /\ path_var = <<>>
  /\ mode_var = "pull"
  /\ last_run = NoRun

\* A main context that runs the newest callback first.
idle_add_newest_first(q, entry) == <<entry>> \o q

\* GLib.idle_add(fn, ...): sources of one priority are dispatched in the order
\* they were added.
idle_add(q, entry) == Append(q, entry)

\* A collaborator call and its result (booleans as 1 and 0).
Call(name, result) == <<name, result>>
Bit(b) == IF b THEN 1 ELSE 0

\* ------------------------------------------------------------- the UI thread
\* The entry's text taken as it is.
local_path_unstripped(text) == text

\* local_path = self.path_entry.get_text().strip()
local_path_of(text) == Strip(text)

\* The start button left as it was.
sensitive_left_on == TRUE

\* self.start_btn.set_sensitive(False)
sensitive_while_running == FALSE

RejectToast == [text |-> "Please select a local path.", detail |-> <<>>]

\* on_start with an empty path: a toast and nothing else.
on_start_reject(text) ==
  /\ start_btn_sensitive
  /\ local_path_of(text) = <<>>
  /\ toast' = RejectToast
  /\ UNCHANGED <<total_bytes, last_fraction, last_time, start_btn_sensitive,
                 status_label, progress_bar, speed_label,
                 idle_queue, now, starts, worker, proc, reader, written, pipe, tk_vars, trace>>

\* An estimator left as __init__ made it.
baseline_unset(current_time) == [last_fraction |-> 0, last_time |-> 0]

\* self.last_fraction = 0.0; self.last_time = time.time()
baseline_at_start(current_time) == [last_fraction |-> 0, last_time |-> current_time]

\* An attempt whose on_transfer_finished has run: its threads have ended and
\* their objects are garbage.
Over(a) == trace[a].finished_run # <<>>

\* on_start with a path: the controls are set, the estimator baseline is reset
\* and the _prepare_and_run thread is started.  time.time() is read here; the
\* clock's advances are accounted for where update_ui_progress reads it next.
\* The records of the attempts that are over are dropped, and so is the toast
\* of an earlier request: an Adw.Toast goes away by itself, and toast holds
\* what has been shown since the last accepted start.
on_start_accept(text, is_pull) ==
  /\ start_btn_sensitive
  /\ local_path_of(text) # <<>>
  /\ starts < MaxStarts
  /\ starts' = starts + 1
  /\ start_btn_sensitive' = sensitive_while_running
  /\ status_label' = "Initializing..."
  /\ progress_bar' = [progress_bar EXCEPT !.opacity = 1]
  /\ speed_label' = [text |-> PlainText("Calculating..."), opacity |-> 1]
  /\ last_fraction' = baseline_at_start(now).last_fraction
  /\ last_time' = baseline_at_start(now).last_time
  /\ worker' = [a \in Attempts |->
                  IF a = starts'
                    THEN [pc |-> "check_adb_device", is_pull |-> is_pull,
                          local_path |-> local_path_of(text), size_bytes |-> 0]
                    ELSE IF Over(a) THEN NoWorker ELSE worker[a]]
  /\ proc' = [a \in Attempts |-> IF Over(a) THEN NoProc ELSE proc[a]]
  /\ reader' = [a \in Attempts |-> IF Over(a) THEN NoReader ELSE reader[a]]
  /\ trace' = [a \in Attempts |-> IF Over(a) THEN NoTrace ELSE trace[a]]
  /\ toast' = NoToast
  /\ UNCHANGED <<total_bytes, idle_queue, now, written, pipe, tk_vars>>

\* The "clicked" handler of start_btn; GTK emits it only while the button is
\* sensitive.
on_start ==
  \E text \in PathTexts :
    \/ on_start_reject(text)
    \/ \E is_pull \in BOOLEAN : on_start_accept(text, is_pull)

\* --------------------------------------------- the _prepare_and_run thread
\* The three-stage command of a Pull: archive on the device, meter, extract
\* into local_path.
PullCommand(local_path, size_bytes) ==
  [stage1 |-> [run |-> "adb exec-out cd && tar -c -f -", dir |-> REMOTE_BASE_DIR,
               name |-> REMOTE_TARGET_DIR_NAME],
   stage2 |-> [run |-> "pv -n -s", size |-> size_bytes],
   stage3 |-> [run |-> "tar -xf - -C", dir |-> local_path]]

\* The three-stage command of a Push: archive the contents of local_path,
\* meter, extract on the device.
PushCommand(local_path, size_bytes) ==
  [stage1 |-> [run |-> "tar -cf - -C", dir |-> local_path, name |-> <<".">>],
   stage2 |-> [run |-> "pv -n -s", size |-> size_bytes],
   stage3 |-> [run |-> "adb shell tar -xf - -C", dir |-> DEVICE_DIR]]

StatusEntry(a, text) == [fn |-> "set_status", attempt |-> a, text |-> text]
FinishedEntry(a, success, error_msg) ==
  [fn |-> "on_transfer_finished", attempt |-> a, success |-> success,
   error_msg |-> error_msg]
ProgressEntry(a, fraction) ==
  [fn |-> "update_ui_progress", attempt |-> a, fraction |-> fraction]

\* check_adb_device() and the branch on its result.
\* The failure branch without its return.
after_device_check_no_return(present, is_pull) == IF is_pull THEN "pull" ELSE "push"

\* Where _prepare_and_run goes after check_adb_device().
after_device_check(present, is_pull) ==
  IF ~present THEN "done" ELSE IF is_pull THEN "pull" ELSE "push"

prepare_check_device(a) ==
  /\ worker[a].pc = "check_adb_device"
  /\ \E present \in BOOLEAN :
       /\ worker' = [worker EXCEPT ![a].pc = after_device_check(present, worker[a].is_pull)]
       /\ IF present
            THEN /\ trace' = [trace EXCEPT ![a].calls = Append(@, Call("check_adb_device", 1))]
                 /\ UNCHANGED idle_queue
            ELSE /\ idle_queue' = idle_add(idle_add(idle_queue, StatusEntry(a, "Device Error")),
                                           FinishedEntry(a, FALSE, DeviceErrorMsg))
                 /\ trace' = [trace EXCEPT ![a].calls = Append(@, Call("check_adb_device", 0)),
                                           ![a].finished_enq = Append(@, [success |-> FALSE, error_msg |-> DeviceErrorMsg])]
  /\ UNCHANGED <<app_vars, now, starts, proc, reader, written, pipe, tk_vars>>

\* The Pull branch: get_remote_size, then os.makedirs(local_path, exist_ok=True),
\* which raises OSError when the directory cannot be created.
prepare_pull(a) ==
  /\ worker[a].pc = "pull"
  /\ \E size \in SizeValues, made \in BOOLEAN :
       /\ worker' = [worker EXCEPT ![a].size_bytes = size,
                                   ![a].pc = IF made THEN "launch" ELSE "raised"]
       /\ trace' = [trace EXCEPT ![a].calls = @ \o <<Call("get_remote_size", size),
                                                      Call("makedirs", Bit(made))>>]
  /\ UNCHANGED <<app_vars, idle_queue, now, starts, proc, reader, written, pipe, tk_vars>>

\* The staging directory made before the source is looked at.
push_calls_mkdir_first(exists, size) ==
  IF ~exists
    THEN <<Call("adb_mkdir", 0), Call("exists", 0)>>
    ELSE <<Call("adb_mkdir", 0), Call("exists", 1), Call("get_local_size", size)>>

\* The collaborators the Push branch calls, in order: os.path.exists, and when
\* the path exists adb shell mkdir -p and get_local_size.
push_calls(exists, size) ==
  IF ~exists
    THEN <<Call("exists", 0)>>
    ELSE <<Call("exists", 1), Call("adb_mkdir", 0), Call("get_local_size", size)>>

\* The Push branch.
prepare_push(a) ==
  /\ worker[a].pc = "push"
  /\ \E exists \in BOOLEAN :
       IF exists
         THEN \E size \in SizeValues :
                /\ worker' = [worker EXCEPT ![a].size_bytes = size, ![a].pc = "launch"]
                /\ trace' = [trace EXCEPT ![a].calls = @ \o push_calls(TRUE, size)]
                /\ UNCHANGED idle_queue
         ELSE /\ worker' = [worker EXCEPT ![a].pc = "done"]
              /\ idle_queue' = idle_add(idle_queue, FinishedEntry(a, FALSE, LocalPathMsg))
              /\ trace' = [trace EXCEPT ![a].calls = @ \o push_calls(FALSE, 0),
                                        ![a].finished_enq = Append(@, [success |-> FALSE, error_msg |-> LocalPathMsg])]
  /\ UNCHANGED <<app_vars, now, starts, proc, reader, written, pipe, tk_vars>>

\* run_adb_command_with_progress: subprocess.Popen(cmd, shell=True, ...) and the
\* start of the read_stderr thread.  Popen raises OSError when the shell cannot
\* be started.
run_adb_command_with_progress(a, cmd, launched) ==
  /\ trace' = [trace EXCEPT ![a].calls = Append(@, Call("Popen", Bit(launched)))]
  /\ IF launched
       THEN /\ proc' = [proc EXCEPT ![a] = [state |-> "running",
                                            status |-> <<0, 0, 0>>, cmd |-> cmd]]
            /\ reader' = [reader EXCEPT ![a].pc = "loop"]
            /\ worker' = [worker EXCEPT ![a].pc = "done"]
       ELSE /\ worker' = [worker EXCEPT ![a].pc = "raised"]
            /\ UNCHANGED <<proc, reader>>

\* The total of whichever attempt wrote it last.
total_left_as_it_was(size_bytes) == total_bytes

\* self.total_bytes = size_bytes
total_at_launch(size_bytes) == size_bytes

\* The tail of _prepare_and_run: self.total_bytes is written from this thread,
\* the status text is queued, the pipeline is launched.
prepare_launch(a) ==
  /\ worker[a].pc = "launch"
  /\ total_bytes' = total_at_launch(worker[a].size_bytes)
  /\ idle_queue' = idle_add(idle_queue, StatusEntry(a, "Transferring..."))
  /\ \E launched \in BOOLEAN :
       run_adb_command_with_progress(
         a,
         IF worker[a].is_pull THEN PullCommand(worker[a].local_path, worker[a].size_bytes)
                              ELSE PushCommand(worker[a].local_path, worker[a].size_bytes),
         launched)
  /\ UNCHANGED <<last_fraction, last_time, start_btn_sensitive, status_label,
                 progress_bar, speed_label, toast, now, starts, written, pipe, tk_vars>>

\* ------------------------------------------------------ the shell pipeline
\* Every writer has closed the diagnostic stream while the shell still runs.
proc_close_stderr(a) ==
  /\ proc[a].state = "running"
  /\ proc' = [proc EXCEPT ![a].state = "closed"]
  /\ UNCHANGED <<app_vars, idle_queue, now, starts, worker, reader, written, pipe, tk_vars, trace>>

\* The shell exits; each of the three stages has its own exit status.
proc_exit(a) ==
  /\ proc[a].state \in { "running", "closed" }
  /\ \E s1 \in StageStatuses, s2 \in StageStatuses, s3 \in StageStatuses :
       proc' = [proc EXCEPT ![a].state = "exited", ![a].status = <<s1, s2, s3>>]
  /\ UNCHANGED <<app_vars, idle_queue, now, starts, worker, reader, written, pipe, tk_vars, trace>>

\* process.poll() once the shell has exited: "a | b | c" run by /bin/sh has the
\* exit status of its last stage.
returncode(status) == status[3]

\* --------------------------------------------------- the read_stderr thread
\* What one non-empty line adds to the idle queue.
progress_callback(q, a, percent) == idle_add(q, ProgressEntry(a, TruncDiv(percent, 100)))

\* The append without its "if line_str".
capture_error_keeps_blank(errors, line_str) == Append(errors, line_str)

\* What one non-numeric line adds to captured_errors.
capture_error(errors, line_str) == IF line_str # <<>> THEN Append(errors, line_str) ELSE errors

\* line.strip() and float(line_str) of every line a stage can write.
stripped == [line \in StderrLines |-> Strip(line)]
parsed == [line \in StderrLines |-> ParseFloat(Strip(line))]

\* The body of the loop for a line readline() has returned: a number is a
\* progress sample, anything else goes to captured_errors unless it is blank.
classify(a, line) ==
  LET line_str == stripped[line]
      percent == parsed[line]
  IN  IF percent.ok
        THEN /\ idle_queue' = progress_callback(idle_queue, a, percent.milli)
             /\ reader' = [reader EXCEPT ![a].line = line]
             /\ trace' = [trace EXCEPT ![a].lines_read = Append(@, line),
                                       ![a].progress_enq = Append(@, TruncDiv(percent.milli, 100))]
        ELSE /\ reader' = [reader EXCEPT ![a].line = line,
                                         ![a].captured_errors = capture_error(@, line_str)]
             /\ trace' = [trace EXCEPT ![a].lines_read = Append(@, line)]
             /\ UNCHANGED idle_queue

\* One turn of the loop in which readline() returns a line a stage has
\* written: while the stream is open, or from what is left in the pipe once the
\* shell has exited.  The write and the read are one step here.
read_stderr_line(a, line) ==
  /\ reader[a].pc = "loop"
  /\ proc[a].state \in { "running", "exited" }
  /\ pipe[a] = <<>>
  /\ written < MaxLines
  /\ written' = written + 1
  /\ classify(a, line)
  /\ UNCHANGED <<app_vars, now, starts, worker, proc, pipe, tk_vars>>

\* A stage writes a line to the stderr pipe.
proc_write(a, line) ==
  /\ proc[a].state = "running"
  /\ written < MaxLines
  /\ written' = written + 1
  /\ pipe' = [pipe EXCEPT ![a] = Append(@, line)]
  /\ UNCHANGED <<app_vars, idle_queue, now, starts, worker, proc, reader, trace, tk_vars>>

\* One turn of the loop in which readline() returns the oldest line of the
\* pipe, whatever the state of the shell.
read_stderr_buffered(a) ==
  /\ reader[a].pc = "loop"
  /\ pipe[a] # <<>>
  /\ classify(a, Head(pipe[a]))
  /\ pipe' = [pipe EXCEPT ![a] = Tail(@)]
  /\ UNCHANGED <<app_vars, now, starts, worker, proc, written, tk_vars>>

\* The text kept whatever the exit code.
outcome_text_always(rc, captured_errors) ==
  [success |-> (rc = 0), error_msg |-> Join(captured_errors)]

\* The outcome computed after the loop.
outcome(rc, captured_errors) ==
  [success |-> (rc = 0),
   error_msg |-> IF rc = 0 THEN <<>> ELSE Join(captured_errors)]

\* One turn of the loop in which readline() returns '' (end of stream) although
\* process.poll() is still None: the loop goes on.
read_stderr_spin(a) ==
  /\ reader[a].pc = "loop"
  /\ pipe[a] = <<>>
  /\ proc[a].state = "closed"
  /\ reader' = [reader EXCEPT ![a].line = <<>>]
  /\ UNCHANGED <<app_vars, idle_queue, now, starts, worker, proc, written, pipe, tk_vars, trace>>

\* A loop that breaks as soon as the process has exited.
loop_breaks_on_exit(a) == proc[a].state = "exited"

\* if not line and process.poll() is not None: break
loop_breaks(a) == pipe[a] = <<>> /\ proc[a].state = "exited"

\* The turn in which readline() returns '' and the process has exited: the loop
\* breaks, the outcome is computed and on_transfer_finished is queued.  The
\* thread ends, and with it its locals and the Popen object.
read_stderr_finish(a) ==
  /\ reader[a].pc = "loop"
  /\ loop_breaks(a)
  /\ LET o == outcome(returncode(proc[a].status), reader[a].captured_errors)
     IN  /\ idle_queue' = idle_add(idle_queue, FinishedEntry(a, o.success, o.error_msg))
         /\ trace' = [trace EXCEPT ![a].finished_enq = Append(@, o),
                                   ![a].status = Append(@, proc[a].status)]
  /\ reader' = [reader EXCEPT ![a] = [NoReader EXCEPT !.pc = "done"]]
  /\ proc' = [proc EXCEPT ![a] = [NoProc EXCEPT !.state = "reaped"]]
  /\ UNCHANGED <<app_vars, now, starts, worker, written, pipe, tk_vars>>

\* ------------------------------------------- the UI thread: idle callbacks
\* Gtk.ProgressBar.set_fraction keeps the value within [0, 1].
Clamp(fraction) == IF fraction < 0 THEN 0 ELSE IF fraction > 1000 THEN 1000 ELSE fraction

\* A speed computed for every sample that is late enough, a lower one included.
speed_of_any_delta(fraction, current_time) ==
  IF /\ total_bytes > 0 /\ last_time > 0
     /\ current_time - last_time > SamplingInterval
    THEN [some |-> TRUE,
          bytes_per_sec |-> ((fraction - last_fraction) * total_bytes) \div (current_time - last_time)]
    ELSE [some |-> FALSE, bytes_per_sec |-> 0]

\* The speed update_ui_progress shows for this sample, or "none".
speed_of(fraction, current_time) ==
  IF /\ total_bytes > 0 /\ last_time > 0
     /\ current_time - last_time > SamplingInterval
     /\ fraction - last_fraction >= 0
    THEN [some |-> TRUE,
          bytes_per_sec |-> ((fraction - last_fraction) * total_bytes) \div (current_time - last_time)]
    ELSE [some |-> FALSE, bytes_per_sec |-> 0]

\* A baseline that moves once the sampling interval has been reached.
moves_baseline_at_interval(fraction, current_time) ==
  /\ total_bytes > 0 /\ last_time > 0
  /\ current_time - last_time >= SamplingInterval

\* Whether update_ui_progress moves the baseline to this sample.
moves_baseline(fraction, current_time) ==
  /\ total_bytes > 0 /\ last_time > 0
  /\ current_time - last_time > SamplingInterval

update_ui_progress(fraction, current_time) ==
  /\ LET speed == speed_of(fraction, current_time)
     IN  speed_label' = IF speed.some
                          THEN [speed_label EXCEPT !.text = format_speed(speed.bytes_per_sec)]
                          ELSE speed_label
  /\ IF moves_baseline(fraction, current_time)
       THEN last_time' = current_time /\ last_fraction' = fraction
       ELSE UNCHANGED <<last_time, last_fraction>>
  /\ progress_bar' = [progress_bar EXCEPT !.fraction = Clamp(fraction),
                                          !.text = TruncDiv(fraction * 100, 1000)]
  /\ UNCHANGED <<total_bytes, start_btn_sensitive, status_label, toast>>

\* The main loop runs the oldest idle callback, an update_ui_progress.
run_update_ui_progress ==
  /\ idle_queue # <<>>
  /\ Head(idle_queue).fn = "update_ui_progress"
  /\ \E dt \in TimeSteps :
       /\ now' = now + dt
       /\ update_ui_progress(Head(idle_queue).fraction, now')
  /\ idle_queue' = Tail(idle_queue)
  /\ trace' = [trace EXCEPT ![Head(idle_queue).attempt].progress_run =
                              Append(@, Head(idle_queue).fraction)]
  /\ UNCHANGED <<starts, worker, proc, reader, written, pipe, tk_vars>>

\* error_msg cut to the toast's length.
short_err(error_msg) ==
  LET cut == IF Len(error_msg) > ToastLimit
               THEN SubSeq(error_msg, 1, ToastLimit) \o Ellipsis
               ELSE error_msg
  IN  IF cut = <<>> THEN CheckTerminalMsg ELSE cut

on_transfer_finished(success, error_msg) ==
  /\ start_btn_sensitive' = TRUE
  /\ progress_bar' = [progress_bar EXCEPT !.opacity = 0, !.fraction = 0]
  /\ speed_label' = [speed_label EXCEPT !.opacity = 0]
  /\ IF success
       THEN /\ status_label' = "Transfer Complete!"
            /\ toast' = [text |-> "Success!", detail |-> <<>>]
       ELSE /\ status_label' = "Transfer Failed"
            /\ toast' = [text |-> "Error: ", detail |-> short_err(error_msg)]
  /\ UNCHANGED <<total_bytes, last_fraction, last_time>>

\* The main loop runs the oldest idle callback, an on_transfer_finished.
run_on_transfer_finished ==
  /\ idle_queue # <<>>
  /\ Head(idle_queue).fn = "on_transfer_finished"
  /\ on_transfer_finished(Head(idle_queue).success, Head(idle_queue).error_msg)
  /\ idle_queue' = Tail(idle_queue)
  /\ trace' = [trace EXCEPT ![Head(idle_queue).attempt].finished_run =
                              Append(@, [success |-> Head(idle_queue).success,
                                         error_msg |-> Head(idle_queue).error_msg])]
  /\ UNCHANGED <<now, starts, worker, proc, reader, written, pipe, tk_vars>>

\* The main loop runs the oldest idle callback, a status_label.set_text lambda.
run_set_status ==
  /\ idle_queue # <<>>
  /\ Head(idle_queue).fn = "set_status"
  /\ status_label' = Head(idle_queue).text
  /\ idle_queue' = Tail(idle_queue)
  /\ UNCHANGED <<total_bytes, last_fraction, last_time, start_btn_sensitive,
                 progress_bar, speed_label, toast, now, starts, worker, proc, reader,
                 written, pipe, tk_vars, trace>>

\* ------------------------------------------------------------ specification
Next ==
  \/ on_start
  \/ run_update_ui_progress
  \/ run_on_transfer_finished
  \/ run_set_status
  \/ \E a \in Attempts :
       \/ prepare_check_device(a)
       \/ prepare_pull(a)
       \/ prepare_push(a)
       \/ prepare_launch(a)
       \/ proc_close_stderr(a)
       \/ proc_exit(a)
       \/ \E line \in StderrLines : read_stderr_line(a, line)
       \/ read_stderr_spin(a)
       \/ read_stderr_finish(a)

Spec == Init /\ [][Next]_vars

\* ------------------------------------------- one attempt, with its stderr pipe
\* The first start only.
first_start == starts = 0 /\ on_start

\* The steps of one attempt in which the stages write to the stderr pipe and
\* read_stderr reads from it.
StreamNext ==
  \/ first_start
  \/ run_update_ui_progress
  \/ run_on_transfer_finished
  \/ run_set_status
  \/ \E a \in Attempts :
       \/ prepare_check_device(a)
       \/ prepare_pull(a)
       \/ prepare_push(a)
       \/ prepare_launch(a)
       \/ \E line \in StderrLines : proc_write(a, line)
       \/ proc_close_stderr(a)
       \/ proc_exit(a)
       \/ read_stderr_buffered(a)
       \/ read_stderr_spin(a)
       \/ read_stderr_finish(a)

\* read_stderr is a running thread and the GLib main loop dispatches its idle
\* sources: neither waits for ever with something to do.
StreamFairness ==
  /\ WF_vars(\E a \in Attempts : read_stderr_buffered(a) \/ read_stderr_finish(a))
  /\ WF_vars(run_update_ui_progress \/ run_on_transfer_finished \/ run_set_status)

StreamSpec == Init /\ [][StreamNext]_vars /\ StreamFairness

\* ------------------------------------------ the tkinter variant (gui.py)
\* Folders the directory dialog may return.
Folders == { <<"/","o">>, <<"/","p">> }

\* What the local path may be on disk.
LocalStates == { "missing", "empty", "files", "file" }

ShowError(text, arg) == [title |-> "Error", text |-> text, arg |-> arg]
ShowInfo(text, arg) == [title |-> "Done", text |-> text, arg |-> arg]

\* The user edits the entry, or browse() stores the chosen folder.
set_path ==
  /\ \E text \in PathTexts \cup Folders : path_var' = text
  /\ UNCHANGED <<app_vars, idle_queue, now, starts, worker, proc, reader, written,
                 trace, pipe, mode_var, last_run>>

\* The user picks a radio button.
set_mode ==
  /\ \E mode \in { "pull", "push" } : mode_var' = mode
  /\ UNCHANGED <<app_vars, idle_queue, now, starts, worker, proc, reader, written,
                 trace, pipe, path_var, last_run>>

\* run_pull: listed is check_device_dir()'s result, made is whether
\* os.makedirs returned (it raises OSError otherwise), rc the pipeline's status.
run_pull(local_path, listed, made, rc) ==
  LET base == [NoRun EXCEPT !.path = local_path, !.mode = "pull"]
  IN  IF ~listed
        THEN [base EXCEPT !.device = "absent",
                          !.calls = <<Call("check_device_dir", 0)>>,
                          !.shown = <<ShowError("does not exist or is empty on device", DEVICE_DIR)>>]
      ELSE IF ~made
        THEN [base EXCEPT !.device = "listed",
                          !.calls = <<Call("check_device_dir", 1), Call("makedirs", 0)>>,
                          !.raised = TRUE]
      ELSE [base EXCEPT !.device = "listed",
                        !.calls = <<Call("check_device_dir", 1), Call("makedirs", 1),
                                    Call("pipeline", rc)>>,
                        !.shown = <<ShowInfo("Pulled files to", local_path)>>]

\* run_push: local is what the path is on disk (os.listdir raises on a regular
\* file), adb_found is whether subprocess.run found the adb executable (it
\* raises FileNotFoundError otherwise), mk and rc are the statuses of the
\* remote mkdir and of the pipeline.
run_push(local_path, local, adb_found, mk, rc) ==
  LET base == [NoRun EXCEPT !.path = local_path, !.mode = "push", !.local = local]
  IN  IF local = "missing"
        THEN [base EXCEPT !.calls = <<Call("exists", 0)>>,
                          !.shown = <<ShowError("No files found in", local_path)>>]
      ELSE IF local = "empty"
        THEN [base EXCEPT !.calls = <<Call("exists", 1), Call("listdir", 0)>>,
                          !.shown = <<ShowError("No files found in", local_path)>>]
      ELSE IF local = "file"
        THEN [base EXCEPT !.calls = <<Call("exists", 1), Call("listdir", -1)>>,
                          !.raised = TRUE]
      ELSE IF ~adb_found
        THEN [base EXCEPT !.calls = <<Call("exists", 1), Call("listdir", 1),
                                      Call("adb_mkdir", -1)>>,
                          !.raised = TRUE]
      ELSE [base EXCEPT !.calls = <<Call("exists", 1), Call("listdir", 1),
                                    Call("adb_mkdir", mk), Call("pipeline", rc)>>,
                        !.shown = <<ShowInfo("Pushed files to", DEVICE_DIR)>>]

\* The command of the "Start Transfer" button.
run ==
  /\ LET path == Strip(path_var)
     IN  IF path = <<>>
           THEN last_run' = [NoRun EXCEPT !.mode = mode_var,
                                          !.shown = <<ShowError("Please select a local folder", <<>>)>>]
         ELSE IF mode_var = "pull"
           THEN \E listed \in BOOLEAN, made \in BOOLEAN, rc \in StageStatuses :
                  last_run' = run_pull(path, listed, made, rc)
           ELSE \E local \in LocalStates, adb_found \in BOOLEAN,
                   mk \in StageStatuses, rc \in StageStatuses :
                  last_run' = run_push(path, local, adb_found, mk, rc)
  /\ UNCHANGED <<app_vars, idle_queue, now, starts, worker, proc, reader, written,
                 trace, pipe, path_var, mode_var>>

TkNext == set_path \/ set_mode \/ run

TkSpec == Init /\ [][TkNext]_vars

\* ---------------------------------------------------------------- properties
Started(a) == worker[a].pc # "none"

\* The attempt has been accepted and its on_transfer_finished has not run yet.
InFlight(a) == Started(a) /\ ~Over(a)

QueueIndices == 1..Len(idle_queue)

Pending(a, fn) ==
  { i \in QueueIndices : idle_queue[i].attempt = a /\ idle_queue[i].fn = fn }

\* Nothing of the attempt is left to happen: its threads have ended and none
\* of its callbacks is waiting in the idle queue.
Quiescent(a) ==
  /\ worker[a].pc \in { "done", "raised" }
  /\ reader[a].pc # "loop"
  /\ \A i \in QueueIndices : idle_queue[i].attempt # a

\* C1: every accepted start request has on_transfer_finished run exactly once:
\* never twice, and once nothing of the attempt is left to happen, once.
C1_CompletionExactlyOnce ==
  \A a \in Attempts :
    Started(a) =>
      /\ Len(trace[a].finished_run) <= 1
      /\ Quiescent(a) => Len(trace[a].finished_run) = 1

\* C2: within one attempt on_transfer_finished is queued after every
\* update_ui_progress and the idle queue keeps that order: once the completion
\* is queued the reader queues no more progress, no progress callback waits
\* behind a completion, and none waits once the completion has run.
C2_NoProgressAfterCompletion ==
  \A a \in Attempts :
    /\ trace[a].finished_enq # <<>> => reader[a].pc # "loop"
    /\ \A i \in Pending(a, "on_transfer_finished"), j \in Pending(a, "update_ui_progress") : j < i
    /\ trace[a].finished_run # <<>> => Pending(a, "update_ui_progress") = {}

\* C2's case: progress callbacks of an attempt have run, and then its completion.
C2_Witness ==
  \E a \in Attempts : trace[a].progress_run # <<>> /\ trace[a].finished_run # <<>>

\* C3: at most one attempt is in flight, and while one is the start button is
\* insensitive and only that attempt has a worker, a pipeline or a reader.
C3_OneAttemptInFlight ==
  /\ Cardinality({ a \in Attempts : InFlight(a) }) <= 1
  /\ (\E a \in Attempts : InFlight(a)) => ~start_btn_sensitive
  /\ \A a \in Attempts :
       ~InFlight(a) =>
         /\ worker[a].pc \in { "none", "done" }
         /\ proc[a].state \in { "none", "reaped" }
         /\ reader[a].pc # "loop"

\* C3's case: a second attempt runs after the first one has completed.
C3_Witness ==
  /\ starts = 2
  /\ InFlight(2)
  /\ proc[2].state = "running"

\* The fraction a line of the stream stands for: "12.5" is 0.125, "150" is 1.5.
ExpectedFraction(line) ==
  CASE line = <<"1","2",".","5","\n">> -> 125
    [] line = <<"1","5","0","\n">> -> 1500

NumericLines == { <<"1","2",".","5","\n">>, <<"1","5","0","\n">> }
BlankLines == { <<" ","\n">> }
IsNumericLine(line) == line \in NumericLines
IsTextLine(line) == line \notin NumericLines /\ line \notin BlankLines

ExpectedProgress(lines) ==
  LET num == SelectSeq(lines, IsNumericLine)
  IN  [i \in 1..Len(num) |-> ExpectedFraction(num[i])]

\* The line without its trailing newline.
Chomp(line) == SubSeq(line, 1, Len(line) - 1)

ExpectedLog(lines) ==
  LET txt == SelectSeq(lines, IsTextLine)
  IN  [i \in 1..Len(txt) |-> Chomp(txt[i])]

RECURSIVE NewlineJoined(_)
NewlineJoined(log) ==
  IF log = <<>> THEN <<>>
  ELSE IF Len(log) = 1 THEN log[1]
  ELSE NewlineJoined(SubSeq(log, 1, Len(log) - 1)) \o <<"\n">> \o log[Len(log)]

\* The diagnostic text of the lines read: the trimmed text lines, in the order
\* read, joined by newlines ("denied", "abort" give "denied\nabort").
DiagnosticText(lines) == NewlineJoined(ExpectedLog(lines))

\* C4: the outcome of a launched pipeline has success exactly when the exit
\* code is 0; its text is the diagnostic lines joined by newlines when it failed
\* and empty when it succeeded; on_transfer_finished receives that outcome.
C4_OutcomeOfPipeline ==
  \A a \in Attempts :
    trace[a].status # <<>> =>
      LET rc == returncode(trace[a].status[1])
          o == trace[a].finished_enq[1]
      IN  /\ Len(trace[a].finished_enq) = 1
          /\ o.success = (rc = 0)
          /\ o.error_msg = IF rc = 0 THEN <<>> ELSE DiagnosticText(trace[a].lines_read)
          /\ \A i \in 1..Len(trace[a].finished_run) : trace[a].finished_run[i] = o

\* C4's case: a failed pipeline with two diagnostic lines has delivered its
\* outcome.
C4_Witness ==
  \E a \in Attempts :
    /\ trace[a].status # <<>>
    /\ returncode(trace[a].status[1]) # 0
    /\ Len(ExpectedLog(trace[a].lines_read)) = 2
    /\ trace[a].finished_run # <<>>

\* C5: when any stage of the pipeline exits with a non-zero status the outcome
\* has success = false.
C5_AnyStageFailureFails ==
  \A a \in Attempts :
    trace[a].status # <<>> =>
      ((\E k \in 1..3 : trace[a].status[1][k] # 0) => ~trace[a].finished_enq[1].success)

CallNames(a) == { trace[a].calls[i][1] : i \in 1..Len(trace[a].calls) }

DeviceAbsent(a) ==
  trace[a].calls # <<>> /\ trace[a].calls[1] = Call("check_adb_device", 0)

\* C6: when check_adb_device returns false nothing else is called (no size
\* query, no directory creation, no pipeline), and the one outcome is the
\* failure with the fixed connectivity text.
C6_DeviceAbsentShortCircuit ==
  \A a \in Attempts :
    DeviceAbsent(a) =>
      /\ trace[a].calls = <<Call("check_adb_device", 0)>>
      /\ worker[a].pc = "done"
      /\ proc[a].state = "none"
      /\ reader[a].pc = "none"
      /\ trace[a].finished_enq = <<[success |-> FALSE, error_msg |-> DeviceErrorMsg]>>

\* C6's case: the attempt of an absent device has had its failure delivered.
C6_Witness ==
  \E a \in Attempts :
    /\ DeviceAbsent(a)
    /\ trace[a].finished_run = <<[success |-> FALSE, error_msg |-> DeviceErrorMsg]>>
    /\ status_label = "Transfer Failed"

\* C7: a start request with an empty trimmed path changes nothing but the toast:
\* every attempt that exists has a non-empty trimmed path, and the step that
\* shows the rejection toast leaves the button, the estimator, the idle queue,
\* the threads and the calls as they were.
C7_EmptyPathRejected ==
  [][ /\ \A a \in Attempts : Started(a)' => Strip(worker'[a].local_path) # <<>>
      /\ (toast' = RejectToast /\ toast # RejectToast) =>
           UNCHANGED <<total_bytes, last_fraction, last_time, start_btn_sensitive,
                       status_label, progress_bar, speed_label, idle_queue, now,
                       starts, worker, proc, reader, written, pipe, tk_vars, trace>> ]_vars

\* C7's case: a request was rejected and the application is as constructed.
C7_Witness ==
  /\ toast = RejectToast
  /\ starts = 0
  /\ start_btn_sensitive
  /\ last_time = 0
  /\ idle_queue = <<>>

CallIndex(a, name) ==
  IF name \in CallNames(a)
    THEN CHOOSE i \in 1..Len(trace[a].calls) : trace[a].calls[i][1] = name
    ELSE 0

PushSourceMissing(a) == Call("exists", 0) \in { trace[a].calls[i] : i \in 1..Len(trace[a].calls) }

\* C8: in a Push os.path.exists is called before adb mkdir and get_local_size,
\* and when it returns false neither is called, no pipeline is launched and the
\* one outcome is the failure "Local path does not exist".
C8_PushSourceMissingFails ==
  \A a \in Attempts :
    /\ \A name \in { "adb_mkdir", "get_local_size" } :
         name \in CallNames(a) =>
           /\ CallIndex(a, "exists") > 0
           /\ CallIndex(a, "exists") < CallIndex(a, name)
    /\ PushSourceMissing(a) =>
         /\ CallNames(a) = { "check_adb_device", "exists" }
         /\ worker[a].pc = "done"
         /\ proc[a].state = "none"
         /\ reader[a].pc = "none"
         /\ trace[a].finished_enq = <<[success |-> FALSE, error_msg |-> LocalPathMsg]>>

\* C8's case: the failure of a Push without its source has been delivered.
C8_Witness ==
  \E a \in Attempts :
    /\ PushSourceMissing(a)
    /\ trace[a].finished_run = <<[success |-> FALSE, error_msg |-> LocalPathMsg]>>

IsPrefix(s, t) == Len(s) <= Len(t) /\ s = SubSeq(t, 1, Len(s))

\* C9: the fractions queued for update_ui_progress are the numeric lines read,
\* each divided by 100, in the order read, and they run in that order; the
\* diagnostic log is the trimmed text lines in the order read; blank lines give
\* neither.
C9_LinesClassifiedInOrder ==
  \A a \in Attempts :
    /\ trace[a].progress_enq = ExpectedProgress(trace[a].lines_read)
    /\ IsPrefix(trace[a].progress_run, trace[a].progress_enq)
    /\ reader[a].pc = "loop" =>
         reader[a].captured_errors = ExpectedLog(trace[a].lines_read)

\* C9's case: a text line and then a numeric line were read, and the fraction
\* has been delivered.
C9_Witness ==
  \E a \in Attempts :
    /\ trace[a].lines_read = << <<"a","b","o","r","t","\n">>, <<"1","2",".","5","\n">> >>
    /\ trace[a].progress_run = <<125>>
    /\ reader[a].pc = "loop"

\* C10: every fraction handed to update_ui_progress lies in [0, 1].
C10_ProgressWithinUnitInterval ==
  \A a \in Attempts :
    \A i \in 1..Len(trace[a].progress_enq) :
      trace[a].progress_enq[i] >= 0 /\ trace[a].progress_enq[i] <= 1000

\* ------------------------------------------------- the estimator's samples
\* The step in which the main loop runs update_ui_progress for the sample at
\* the head of the idle queue.
SampleStep ==
  /\ idle_queue # <<>>
  /\ Head(idle_queue).fn = "update_ui_progress"
  /\ idle_queue' = Tail(idle_queue)

Sample == Head(idle_queue).fraction

\* The time since the baseline, read by the step that processes the sample.
Elapsed == now' - last_time

BaselineKept == last_fraction' = last_fraction /\ last_time' = last_time

BaselineMovedToSample == last_fraction' = Sample /\ last_time' = now'

\* C11: a sample lower than the recorded fraction leaves last_fraction and
\* last_time as they were and shows no speed, whatever the elapsed time.
C11_RegressionKeepsBaseline ==
  [][(SampleStep /\ Sample < last_fraction) =>
       (BaselineKept /\ speed_label' = speed_label)]_vars

\* The sample is the first one of its attempt that update_ui_progress sees.
FirstSampleStep ==
  /\ SampleStep
  /\ trace[Head(idle_queue).attempt].progress_run = <<>>

SpeedUnits == { "B/s", "KB/s", "MB/s" }

\* C12 as stated: the first sample after the reset records (fraction, now) as
\* the baseline and shows no speed, however much time has passed.
C12_FirstSampleOnlyRecords ==
  [][FirstSampleStep => (BaselineMovedToSample /\ speed_label' = speed_label)]_vars

\* What the first sample does: it is measured against the baseline
\* (0, start time) that on_start recorded.  With total bytes > 0 and
\* more than the sampling interval elapsed it moves the baseline to
\* (fraction, now) and, unless negative, shows fraction * total_bytes / elapsed;
\* otherwise it shows no speed and leaves the baseline as it was.
C12_FirstSampleMeasuredFromStart ==
  [][FirstSampleStep =>
       /\ last_fraction = 0
       /\ IF total_bytes > 0 /\ Elapsed > SamplingInterval
            THEN /\ BaselineMovedToSample
                 /\ IF Sample >= 0
                      THEN speed_label'.text = format_speed((Sample * total_bytes) \div Elapsed)
                      ELSE speed_label' = speed_label
            ELSE BaselineKept /\ speed_label' = speed_label]_vars

\* C12's case: the only sample processed so far has produced a speed and has
\* become the baseline.
C12_Witness ==
  \E a \in Attempts :
    /\ InFlight(a)
    /\ Len(trace[a].progress_run) = 1
    /\ speed_label.text.unit \in SpeedUnits
    /\ last_fraction = trace[a].progress_run[1]

\* The pipeline of the attempt has been launched.
Launched(a) == \E i \in 1..Len(trace[a].calls) : trace[a].calls[i] = Call("Popen", 1)

\* C13: update_ui_progress never shows a negative speed, and for an attempt
\* whose total byte count is 0 it shows no speed at all: the label stays at
\* "Calculating...".
C13_NoNegativeSpeed ==
  /\ [](/\ speed_label.text.num >= 0
        /\ \A a \in Attempts :
             (InFlight(a) /\ Launched(a) /\ worker[a].size_bytes = 0) =>
               speed_label.text = PlainText("Calculating..."))
  /\ [][(SampleStep /\ total_bytes = 0) => speed_label' = speed_label]_vars

\* C13's case: a sample lower than the baseline was processed more than the
\* sampling interval after it, and the speed shown is still the earlier one.
C13_Witness ==
  \E a \in Attempts :
    /\ trace[a].progress_run = <<1500, 125>>
    /\ last_fraction = 125
    /\ speed_label.text = [num |-> 20, unit |-> "MB/s"]

\* subprocess.Popen raised for the attempt's command.
LaunchFailed(a) == \E i \in 1..Len(trace[a].calls) : trace[a].calls[i] = Call("Popen", 0)

\* C14: when the pipeline command cannot be launched the caller is notified:
\* the worker thread does not end in the unhandled exception, and a callback
\* that reports the failure is handed to the main loop.
C14_LaunchFailureNotified ==
  \A a \in Attempts :
    LaunchFailed(a) =>
      /\ worker[a].pc # "raised"
      /\ trace[a].finished_enq # <<>>

\* A step of a background thread (_prepare_and_run or read_stderr) or of the
\* pipeline's processes: the steps of the main loop leave these records alone,
\* on_start excepted, which counts the start.
BackgroundStep ==
  /\ starts' = starts
  /\ worker' # worker \/ reader' # reader \/ proc' # proc

\* C15: no background thread writes the estimator's state (last_fraction,
\* last_time, total_bytes) or the displayed progress and outcome; what it has
\* to write it hands to the main loop through the idle queue.
C15_WritesOnlyOnMainLoop ==
  [][BackgroundStep => UNCHANGED app_vars]_vars

\* The step in which the main loop runs on_transfer_finished.
FinishedStep ==
  /\ idle_queue # <<>>
  /\ Head(idle_queue).fn = "on_transfer_finished"
  /\ idle_queue' = Tail(idle_queue)

\* The step in which on_start accepts a start.
AcceptStep == starts' = starts + 1

\* C16: once the outcome of an attempt has been delivered the start button is
\* sensitive again; every accepted start sets the baseline to (0, start time)
\* with no progress sample waiting, and that baseline is the one in force
\* until the attempt's first sample is processed (the clock is advanced where
\* update_ui_progress reads it, so the start time is the clock's value until
\* then).
C16_BaselineResetPerAttempt ==
  /\ []((\A a \in Attempts : Started(a) => Over(a)) => start_btn_sensitive)
  /\ [][FinishedStep => start_btn_sensitive']_vars
  /\ [][AcceptStep =>
          /\ last_fraction' = 0 /\ last_time' = now'
          /\ \A i \in 1..Len(idle_queue') : idle_queue'[i].fn # "update_ui_progress"]_vars
  /\ [](\A a \in Attempts :
          (InFlight(a) /\ trace[a].progress_run = <<>>) =>
            last_fraction = 0 /\ last_time = now)

\* C16's case: the first attempt moved the baseline to (1.5, start + 0.75 s)
\* with its only sample, its outcome was delivered, and the second start has
\* reset the baseline.
C16_Witness ==
  /\ starts = 2
  /\ worker[2].pc = "check_adb_device"
  /\ total_bytes = 1048576
  /\ progress_bar.text = 150
  /\ now = 1000750
  /\ last_fraction = 0 /\ last_time = now

\* ------------------------------------------------------------ the read loop
\* C17: the read loop ends only in a turn in which the pipe is empty and the
\* process has exited (an empty read while the process runs does not end it);
\* so no written line is left unread when the outcome is computed; and once
\* the process has exited, the loop ends and on_transfer_finished runs.
C17_LoopEndsAtEndOfStream ==
  /\ [][\A a \in Attempts :
          (reader[a].pc = "loop" /\ reader'[a].pc # "loop") =>
            (pipe[a] = <<>> /\ proc[a].state = "exited")]_vars
  /\ [](\A a \in Attempts : trace[a].finished_enq # <<>> => pipe[a] = <<>>)
  /\ \A a \in Attempts : (proc[a].state = "exited") ~> (trace[a].finished_run # <<>>)

\* C17's case: the process has exited with a line still in the pipe, after
\* read_stderr has read another one.
C17_Witness ==
  \E a \in Attempts :
    /\ proc[a].state = "exited"
    /\ reader[a].pc = "loop"
    /\ Len(pipe[a]) = 1
    /\ Len(trace[a].lines_read) = 1

\* ------------------------------------------------------ the speed computed
\* The speed label for a sample measured against the baseline.
ExpectedSpeedText ==
  format_speed(((Sample - last_fraction) * total_bytes) \div Elapsed)

\* C18 as stated: a non-regressing sample that arrives at least the sampling
\* interval after the baseline, with total bytes > 0, shows
\* (fraction - last_fraction) * total_bytes / elapsed and moves the baseline to
\* (fraction, now); one that arrives earlier shows no speed and leaves the
\* baseline as it was.
C18_SpeedFromIntervalOn ==
  [][SampleStep =>
       IF Elapsed >= SamplingInterval
         THEN (Sample >= last_fraction /\ total_bytes > 0) =>
                (speed_label'.text = ExpectedSpeedText /\ BaselineMovedToSample)
         ELSE BaselineKept /\ speed_label' = speed_label]_vars

\* C18, amended: the same with "more than the sampling interval" for the
\* speed, and "at most the sampling interval" for no speed and no move.
C18_SpeedAfterInterval ==
  [][SampleStep =>
       IF Elapsed > SamplingInterval
         THEN (Sample >= last_fraction /\ total_bytes > 0) =>
                (speed_label'.text = ExpectedSpeedText /\ BaselineMovedToSample)
         ELSE BaselineKept /\ speed_label' = speed_label]_vars

\* C18's case: 0.125 became the baseline, and 1.5, processed 0.75 s later, was
\* measured against it: 1.375 * 1048576 bytes in 0.75 s is 1.8 MB/s.
C18_Witness ==
  \E a \in Attempts :
    /\ trace[a].progress_run = <<125, 1500>>
    /\ last_fraction = 1500 /\ last_time = now
    /\ speed_label.text = [num |-> 18, unit |-> "MB/s"]

\* ------------------------------------------------- samples and their attempt
\* C19: total_bytes is the size measured for an attempt from the launch of its
\* pipeline until its outcome has been delivered, and every progress sample
\* that waits in the idle queue (the one update_ui_progress takes next
\* included) belongs to the latest attempt and meets that attempt's total.
C19_SampleMeetsOwnTotal ==
  /\ \A a \in Attempts :
       (InFlight(a) /\ Launched(a)) => total_bytes = worker[a].size_bytes
  /\ \A i \in QueueIndices :
       idle_queue[i].fn = "update_ui_progress" =>
         /\ idle_queue[i].attempt = starts
         /\ InFlight(starts)
         /\ total_bytes = worker[starts].size_bytes

\* C19's case: the first attempt had samples processed, and now a sample of
\* the second attempt, whose total is 0, waits in the idle queue.
C19_Witness ==
  /\ starts = 2
  /\ Pending(2, "update_ui_progress") # {}
  /\ worker[2].size_bytes = 0
  /\ progress_bar.text # 0
  /\ last_time > 1000000

\* ------------------------------------------------------ the tkinter variant
RunCalls(name) == { i \in 1..Len(last_run.calls) : last_run.calls[i][1] = name }

PrecheckPassed ==
  \/ last_run.mode = "pull" /\ last_run.device = "listed"
  \/ last_run.mode = "push" /\ last_run.local = "files"

PrecheckFailed ==
  \/ last_run.mode = "pull" /\ last_run.device = "absent"
  \/ last_run.mode = "push" /\ last_run.local \in { "missing", "empty" }

\* C20: run() runs a pipeline only for a non-empty path whose pre-check passed;
\* after a failed pre-check it has shown an error and run neither the remote
\* mkdir nor a pipeline; after a passed one it has run exactly one pipeline
\* and then shown "Done", whatever the pipeline's exit status.
C20_TkPipelineOnlyAfterPrecheck ==
  /\ RunCalls("pipeline") # {} => (last_run.path # <<>> /\ PrecheckPassed)
  /\ PrecheckFailed =>
       /\ Len(last_run.shown) = 1 /\ last_run.shown[1].title = "Error"
       /\ RunCalls("adb_mkdir") = {} /\ RunCalls("pipeline") = {}
  /\ PrecheckPassed =>
       /\ Cardinality(RunCalls("pipeline")) = 1
       /\ Len(last_run.shown) = 1 /\ last_run.shown[1].title = "Done"

====
